---- MODULE Spec2Model ----
(***************************************************************************)
(* State-machine model of the hairybear-web viewer: the App composition    *)
(* (selection, loading flag, tap-to-start), the AnimationCarousel          *)
(* handlers, the TapToStart overlay, the useBearModel hook with its        *)
(* playAnimation, the BearModel effects and the ErrorBoundary.             *)
(*                                                                         *)
(* React is modelled by its observable scheduling: an event handler sets   *)
(* state and marks the owning component dirty; a later render step copies  *)
(* state into the props/closures the children see and runs the effects     *)
(* whose dependencies changed.                                             *)
(*                                                                         *)
(* Numbers of the colour schemes are in tenths (0.8 is 8); animation time  *)
(* is in ticks of 50 ms (0.1 s is 2 ticks).                                *)
(***************************************************************************)
EXTENDS Integers, Sequences, FiniteSets, TLC

(***************************************************************************)
(* Bounds of the model.                                                    *)
(***************************************************************************)
MaxTime == 2        \* largest action time (in ticks) a frame may reach
MaxCalls == 2       \* saturation of the callback-invocation counters
MaxWarnings == 1    \* saturation of the console.warn counter
MaxBurst == 2       \* saturation of the count of coalesced resize events

(***************************************************************************)
(* The animation catalog (utils/animation-config).                         *)
(***************************************************************************)
Entry(key, id, name, hueShift, colorFrequency, bloom, saturation) ==
  [key |-> key, id |-> id, name |-> name,
   colorScheme |-> [hueShift |-> hueShift, colorFrequency |-> colorFrequency,
                    bloom |-> bloom, saturation |-> saturation]]

ANIMATION_CONFIG ==
  <<
      Entry("hip-hop-dancing", "hip-hop-dancing", "hip-hop-dancing", 8, 15, 18, 17),
      Entry("jumping", "jumping", "jumping", 3, 18, 15, 15),
      Entry("punching", "punching", "punching", -5, 16, 17, 18),
      Entry("running", "running", "running", 4, 17, 14, 16),
      Entry("sitting-clap", "sitting-clap", "sitting-clap", 6, 13, 15, 14),
      Entry("sitting-pose", "sitting-pose", "sitting-pose", 2, 10, 13, 13),
      Entry("walking", "walking", "walking", 1, 12, 12, 14),
      Entry("weaving", "weaving", "weaving", 7, 14, 16, 15),
      Entry("cheering", "cheering", "cheering", 9, 16, 19, 19),
      Entry("crying", "crying", "crying", -8, 8, 11, 12),
      Entry("bowing", "bowing", "bowing", 5, 11, 14, 13),
      Entry("noding", "noding", "noding", 3, 13, 13, 14),
      Entry("head-spinning", "head-spinning", "head-spinning", 10, 19, 18, 18),
      Entry("welcome", "welcome", "welcome", 6, 14, 16, 16),
      Entry("clapping", "clapping", "clapping", 4, 15, 15, 15),
      Entry("climbing", "climbing", "climbing", 2, 13, 14, 15),
      Entry("run-away", "run-away", "run-away", -3, 17, 16, 17),
      Entry("praying", "praying", "praying", 5, 9, 13, 12),
      Entry("fall-down", "fall-down", "fall-down", -6, 14, 12, 13),
      Entry("looking-right", "looking-right", "looking-right", 3, 11, 13, 13),
      Entry("laying", "laying", "laying", 1, 8, 12, 12),
      Entry("lying-down", "lying-down", "lying-down", 0, 7, 11, 11),
      Entry("salute", "salute", "salute", 4, 12, 14, 14),
      Entry("melee-attack", "melee-attack", "melee-attack", -7, 18, 19, 19),
      Entry("heavy-hit", "heavy-hit", "heavy-hit", -9, 19, 20, 20),
      Entry("look-around", "look-around", "look-around", 2, 12, 13, 13),
      Entry("situp", "situp", "situp", 3, 13, 14, 14),
      Entry("soul-spin", "soul-spin", "soul-spin", 12, 18, 19, 19),
      Entry("break-dance", "break-dance", "break-dance", 9, 17, 18, 18),
      Entry("swing-dance", "swing-dance", "swing-dance", 7, 16, 17, 17),
      Entry("jogging-box", "jogging-box", "jogging-box", 4, 15, 15, 16),
      Entry("clown-walk", "clown-walk", "clown-walk", 8, 16, 17, 17),
      Entry("jumping-jack", "jumping-jack", "jumping-jack", 5, 16, 16, 16),
      Entry("strong-gesture", "strong-gesture", "strong-gesture", 6, 14, 17, 17),
      Entry("dancing", "dancing", "dancing", 8, 15, 17, 17),
      Entry("praying-down", "praying-down", "praying-down", 4, 9, 12, 12),
      Entry("silly-dancing", "silly-dancing", "silly-dancing", 10, 18, 19, 19),
      Entry("standing-clap", "standing-clap", "standing-clap", 5, 14, 15, 15),
      Entry("sneaking-right", "sneaking-right", "sneaking-right", 2, 12, 13, 14),
      Entry("standing-torch-run-forward", "standing-torch-run-forward", "standing-torch-run-forward", 6, 15, 18, 17)
  >>

\* Variant: the entries in reverse insertion order.
ANIMATIONSReversed ==
  [i \in 1..Len(ANIMATION_CONFIG) |-> ANIMATION_CONFIG[Len(ANIMATION_CONFIG) + 1 - i]]

\* Object.values(ANIMATION_CONFIG): the entries in insertion order.
ANIMATIONS == [i \in 1..Len(ANIMATION_CONFIG) |-> ANIMATION_CONFIG[i]]

\* Variant: the entry of the default animation, whatever the index.
AnimationAtDefault(index) == ANIMATIONS[1]

\* ANIMATIONS[index] with the 0-based index of the source.
AnimationAt(index) == ANIMATIONS[index + 1]

AllNames == {ANIMATIONS[i].name : i \in 1..Len(ANIMATIONS)}

(***************************************************************************)
(* State.                                                                  *)
(***************************************************************************)
VARIABLES
  selectedIndex,    \* App: useState(0)
  isModelLoading,   \* App: useState(true)
  hasStarted,       \* App: useState(false)
  appDirty,         \* App state (or a hook of App) changed since App last rendered
  rIndex,           \* selectedIndex as of the last App render (props and closures)
  rLoading,         \* isModelLoading as of the last App render (TapToStart isLoading)
  rStarted,         \* hasStarted as of the last App render (overlay unmounted iff TRUE)
  prism,            \* the props last passed to the Prism background
  load,             \* useGLTF: "pending", "ok" or "failed"
  gltf,             \* the loaded asset: [scene, animations]
  mounted,          \* BearModel has committed (useGLTF returned without throwing)
  status,           \* useBearModel: LoadingStatus
  error,            \* useBearModel: "null" or the error message
  seenStatus,       \* status as of the last BearModel render (effect dependencies)
  bearDirty,        \* BearModel must render (its state changed, or Suspense retries)
  actions,          \* useAnimations: clip name -> AnimationAction state
  opacity,          \* BearModel: useState(0), the fade-in target
  fadeTimer,        \* BearModel: the 100 ms timeout of the fade-in effect is pending
  hasError,         \* ErrorBoundary state
  lastEvent,        \* history: the last user event
  lastPlay,         \* history: name of the last playAnimation request
  lastFound,        \* history: name of the last request that had an action
  repeatPlay,       \* history: the last two playAnimation requests had the same name
  warnings,         \* history: console.warn calls of playAnimation (saturating)
  errorCalls,       \* history: onLoadError invocations (saturating)
  didCatch,         \* history: componentDidCatch invocations (saturating)
  tappedLoading,    \* history: the overlay was tapped while it showed the spinner
  tappedReady,      \* history: the overlay was tapped while it showed TAP TO START
  scaleProp,        \* the scale last passed to BearModel (hundredths)
  lastDelta,        \* history: the delta of the last frame callback (0: none yet)
  innerWidth,       \* window.innerWidth
  innerHeight,      \* window.innerHeight
  width,            \* useResponsive: useState(window.innerWidth)
  height,           \* useResponsive: useState(window.innerHeight)
  timeouts,         \* the window's pending timeouts: ticks left of each, oldest first
  listening,        \* useResponsive: the resize listener is registered (effect mounted)
  quiet,            \* history: ticks since the last resize event (saturating)
  prevWidth,        \* history: the tracked width before its last update
  burst,            \* history: resize events of the current or last burst (saturating)
  tier,             \* useDevicePerformance: useState('medium')
  gpuInfo,          \* useDevicePerformance: useState(''), as a sequence of words
  supportsWebGL,    \* useDevicePerformance: useState(true)
  pc,               \* position of the detection effect
  device,           \* what the browser reports: [gl, ext, renderer, mobile, memory]
  applied,          \* history: the detection rules that have run
  lowered,          \* history: the mobile or memory rule has lowered the tier
  override          \* history: the tier of the last explicit setTier, or "none"

appVars == <<selectedIndex, isModelLoading, hasStarted, appDirty>>
propVars == <<rIndex, rLoading, rStarted, prism, scaleProp>>
loadVars == <<load, gltf>>
fadeVars == <<opacity, fadeTimer>>
bearVars == <<mounted, status, error, seenStatus, bearDirty, actions, fadeVars>>
playVars == <<lastPlay, lastFound, repeatPlay, warnings>>
callVars == <<errorCalls, didCatch>>
tapVars == <<tappedLoading, tappedReady>>
viewVars == <<innerWidth, innerHeight, width, height, timeouts, listening, quiet,
             prevWidth, burst>>
perfVars == <<tier, gpuInfo, supportsWebGL, pc, device, applied, lowered, override>>
envVars == <<viewVars, perfVars>>
vars == <<selectedIndex, isModelLoading, hasStarted, appDirty, rIndex, rLoading,
          rStarted, prism, load, gltf, mounted, status, error, seenStatus,
          bearDirty, actions, opacity, fadeTimer, hasError, lastEvent, lastPlay, lastFound, repeatPlay,
          warnings, errorCalls, didCatch, tappedLoading, tappedReady, scaleProp, lastDelta,
          innerWidth, innerHeight, width, height, timeouts, listening, quiet,
          prevWidth, burst,
          tier, gpuInfo, supportsWebGL, pc, device, applied, lowered, override>>

Min(a, b) == IF a < b THEN a ELSE b

(***************************************************************************)
(* The asset: what useGLTF can deliver.                                    *)
(***************************************************************************)
NoGltf == [scene |-> FALSE, animations |-> {}]

\* A full asset, an asset lacking the clip of catalog entry 1, an asset with
\* a scene and no clip, and an asset without a scene.
GltfOutcomes ==
  { [scene |-> TRUE, animations |-> AllNames],
    [scene |-> TRUE, animations |-> AllNames \ {AnimationAt(1).name}],
    [scene |-> TRUE, animations |-> {}],
    NoGltf }

(***************************************************************************)
(* AnimationAction (three.js), as far as playAnimation drives it.          *)
(***************************************************************************)
NewAction == [active |-> FALSE, time |-> 0, fading |-> FALSE, loop |-> "LoopRepeat"]

\* action.stop(): deactivate, then reset.
Stop(a) == [a EXCEPT !.active = FALSE, !.time = 0, !.fading = FALSE]

\* action.reset().fadeIn(0.5).play(); action.setLoop(LoopRepeat, Infinity)
ResetFadeInPlay(a) == [active |-> TRUE, time |-> 0, fading |-> TRUE, loop |-> "LoopRepeat"]

\* useAnimations(animations, group).actions: one action per clip.
useAnimations(animations) == [n \in animations |-> NewAction]

ActiveSet == {n \in DOMAIN actions : actions[n].active}

(***************************************************************************)
(* useBearModel.                                                           *)
(***************************************************************************)
\* The status effect: the status it leaves, given the status before.
StatusEffect(g, cur) ==
  IF g.scene /\ Cardinality(g.animations) > 0 THEN "loaded"
  ELSE IF ~g.scene THEN "error"
  ELSE cur

\* setError of the status effect.
ErrorEffect(g, cur) ==
  IF g.scene /\ Cardinality(g.animations) > 0 THEN cur
  ELSE IF ~g.scene THEN "Failed to load model"
  ELSE cur

\* Variant: the other actions are faded out instead of stopped.
playAnimationFadeOut(acts, name) ==
  IF name \notin DOMAIN acts THEN acts
  ELSE [n \in DOMAIN acts |->
          IF n # name THEN [acts[n] EXCEPT !.fading = TRUE] ELSE ResetFadeInPlay(acts[n])]

\* Variant: a request for the action that is already playing stops it.
playAnimationToggle(acts, name) ==
  IF name \notin DOMAIN acts THEN acts
  ELSE [n \in DOMAIN acts |->
          IF n # name \/ acts[n].active THEN Stop(acts[n]) ELSE ResetFadeInPlay(acts[n])]

\* Variant: the other actions are stopped before the name is looked up.
playAnimationNoGuard(acts, name) ==
  [n \in DOMAIN acts |->
     IF n # name THEN Stop(acts[n]) ELSE ResetFadeInPlay(acts[n])]

\* Variant: the others are stopped now, the requested action starts later.
playAnimationDeferredStart(acts, name) ==
  IF name \notin DOMAIN acts THEN acts
  ELSE [n \in DOMAIN acts |-> IF n # name THEN Stop(acts[n]) ELSE acts[n]]

\* playAnimation(name) on the action set acts: the action set it leaves.
playAnimation(acts, name) ==
  IF name \notin DOMAIN acts THEN acts
  ELSE [n \in DOMAIN acts |->
          IF n # name THEN Stop(acts[n]) ELSE ResetFadeInPlay(acts[n])]

\* The fade-in effect of BearModel: whether it sets its timeout.
fadeIn(st) == st = "loaded"

\* Variant: the play effect without its status test.
playsWhenAlways(st) == TRUE

\* The play effect of BearModel: whether it calls playAnimation.
playsWhen(st) == st = "loaded"

\* One call of playAnimation by the play effect, with its bookkeeping.
PlayCall(name) ==
  /\ actions' = playAnimation(actions, name)
  /\ repeatPlay' = (name = lastPlay)
  /\ lastPlay' = name
  /\ lastFound' = IF name \in DOMAIN actions THEN name ELSE lastFound
  /\ warnings' = IF name \in DOMAIN actions THEN warnings
                 ELSE Min(warnings + 1, MaxWarnings)

(***************************************************************************)
(* App: derived values.                                                    *)
(***************************************************************************)
\* The colour props App passes to Prism for a selected index.
PrismProps(index) == [hueShift |-> 0, colorFrequency |-> 10, noise |-> 0, glow |-> 10]

\* The names of all props App passes to Prism.
PrismPropNames ==
  {"animationType", "timeScale", "height", "baseWidth", "scale", "hueShift",
   "colorFrequency", "noise", "glow", "offset"}

(***************************************************************************)
(* AnimationCarousel handlers, on the selectedIndex prop of the last       *)
(* render; the result is the index handed to onAnimationSelect, or cur     *)
(* when onAnimationSelect is not called.                                   *)
(***************************************************************************)
hasPrev(index) == index > 0
hasNext(index) == index < Len(ANIMATIONS) - 1

\* Variant: Previous wraps around to the last entry.
handlePrevWrap(index, cur) == IF hasPrev(index) THEN index - 1 ELSE Len(ANIMATIONS) - 1

handlePrev(index, cur) == IF hasPrev(index) THEN index - 1 ELSE cur

\* Variant: Next without the hasNext test.
handleNextUnbounded(index, cur) == index + 1

handleNext(index, cur) == IF hasNext(index) THEN index + 1 ELSE cur

\* Variant: ArrowRight is not handled.
handleKeyDownLeftOnly(key, index, cur) ==
  IF key = "ArrowLeft" THEN handlePrev(index, cur) ELSE cur

handleKeyDown(key, index, cur) ==
  IF key = "ArrowLeft" THEN handlePrev(index, cur)
  ELSE IF key = "ArrowRight" THEN handleNext(index, cur)
  ELSE cur

(***************************************************************************)
(* TapToStart: whether onStart is called.                                  *)
(***************************************************************************)
\* Variant: onStart toggles the flag.
onStartToggle(started) == ~started

\* App: onStart={() => setHasStarted(true)}, the value it sets.
onStart(started) == TRUE

\* Variant: the click handler without the isLoading test.
handleClickAlways(isLoading) == TRUE

handleClick(isLoading) == ~isLoading

\* Variant: the key handler without the isLoading test.
onKeyDownAlways(isLoading, key) == key \in {"Enter", " "}

onKeyDown(isLoading, key) == ~isLoading /\ key \in {"Enter", " "}

(***************************************************************************)
(* ErrorBoundary.  Every value thrown in the 3D region is an Error object, *)
(* so state.error is set whenever state.hasError is.                       *)
(***************************************************************************)
\* The kinds of fallback prop: a function of the error, a node, or none.
FallbackProps == {"function", "node", "none"}

\* Variant: the boundary renders its children again after an error.
renderBoundaryRetry(failed, fallback) == "children"

\* render(): what the boundary returns.
renderBoundary(failed, fallback) ==
  IF failed
    THEN IF fallback = "function" THEN "fallback(error)"
         ELSE IF fallback = "node" THEN "fallback"
         ELSE "default"
    ELSE "children"

\* App passes no fallback prop.
boundaryShows == renderBoundary(hasError, "none")

(***************************************************************************)
(* BearModel frame callback.                                               *)
(***************************************************************************)
Deltas == {1, 2, 5}                   \* frame times: 50 ms, 100 ms, 250 ms
\* Variant: Math.max in place of Math.min.
cappedDeltaMax(delta) == IF delta > 2 THEN delta ELSE 2

cappedDelta(delta) == Min(delta, 2)   \* Math.min(delta, 0.1)

(***************************************************************************)
(* useResponsive.  Lengths are in pixels, time is in ticks of 50 ms.       *)
(***************************************************************************)
BREAKPOINTS == [mobile |-> 768, tablet |-> 1024]
MIN_VIEWPORT_WIDTH == 320
DebounceTicks == 2                    \* setTimeout(..., 100)

\* The window sizes the browser takes.
Widths == {600, 767, 768, 1023, 1024, 1280}
Heights == {500, 768, 1400}

\* Variant: the thresholds belong to the lower category.
deviceTypeOfInclusive(w) ==
  IF w <= BREAKPOINTS.mobile THEN "mobile"
  ELSE IF w <= BREAKPOINTS.tablet THEN "tablet"
  ELSE "desktop"

deviceTypeOf(w) ==
  IF w < BREAKPOINTS.mobile THEN "mobile"
  ELSE IF w < BREAKPOINTS.tablet THEN "tablet"
  ELSE "desktop"

\* Variant: a square viewport counts as landscape.
orientationOfSquareLandscape(w, h) == IF w >= h THEN "landscape" ELSE "portrait"

orientationOf(w, h) == IF w > h THEN "landscape" ELSE "portrait"

deviceType == deviceTypeOf(width)
orientation == orientationOf(width, height)
isBelowMinWidth == width < MIN_VIEWPORT_WIDTH

\* clearTimeout(timeoutId): timeoutId is the timeout set last, which is the
\* last of the pending ones unless it has fired already.
clearTimeout(pending) ==
  IF pending = << >> THEN pending ELSE SubSeq(pending, 1, Len(pending) - 1)

\* Variant: a pending timeout is left to run instead of being replaced.
handleResizeKeepPending(pending) ==
  IF pending # << >> THEN pending ELSE <<DebounceTicks>>

\* handleResize: clearTimeout(timeoutId), then a new timeout of 100 ms; the
\* result is the pending timeouts it leaves.
handleResize(pending) == Append(clearTimeout(pending), DebounceTicks)

\* Variant: the cleanup removes the listener and leaves the timeout.
cleanupListenerOnly(pending) == pending

\* The effect's cleanup, as far as the timeouts go: clearTimeout(timeoutId).
cleanup(pending) == clearTimeout(pending)

\* Ticks until the timeout set last fires, -1 when none is pending.
timer == IF timeouts = << >> THEN -1 ELSE timeouts[Len(timeouts)]

\* Variant: the model is not scaled by device type.
bearScaleFixed(type) == 40

\* App: bearScale, in hundredths.
bearScale(type) ==
  IF type = "mobile" THEN 28 ELSE IF type = "tablet" THEN 32 ELSE 40

(***************************************************************************)
(* useDevicePerformance.  A renderer string is the sequence of its words;  *)
(* the empty string is the empty sequence.  memory 0 stands for a          *)
(* navigator without deviceMemory.                                         *)
(***************************************************************************)
Tiers == {"high", "medium", "low"}

Renderers ==
  { <<"Intel", "Iris">>, <<"NVIDIA", "GeForce">>, <<"AMD", "Radeon">>,
    <<"Radeon", "Pro">>, <<"Apple", "M1">>, <<"Mali", "G78">>,
    <<"ANGLE", "Intel", "NVIDIA">> }

Devices ==
  [gl : BOOLEAN, ext : BOOLEAN, renderer : Renderers, mobile : BOOLEAN,
   memory : {0, 2, 4, 8}]

\* A desktop with a discrete GPU.
DesktopDevice ==
  [gl |-> TRUE, ext |-> TRUE, renderer |-> <<"NVIDIA", "GeForce">>,
   mobile |-> FALSE, memory |-> 8]

\* renderer.includes(word)
includes(renderer, word) == \E i \in 1..Len(renderer) : renderer[i] = word

\* Variant: the discrete vendors are tested before Intel.
classifyVendorFirst(renderer, prev) ==
  IF includes(renderer, "NVIDIA") \/ includes(renderer, "AMD")
     \/ includes(renderer, "Radeon") THEN "high"
  ELSE IF includes(renderer, "Intel") THEN "medium"
  ELSE IF includes(renderer, "Apple") THEN "high"
  ELSE prev

\* The renderer classification: the tier it sets, prev when it sets none.
classify(renderer, prev) ==
  IF includes(renderer, "Intel") THEN "medium"
  ELSE IF includes(renderer, "NVIDIA") \/ includes(renderer, "AMD")
          \/ includes(renderer, "Radeon") THEN "high"
  ELSE IF includes(renderer, "Apple") THEN "high"
  ELSE prev

\* setTier(prev => ...) of the mobile rule.
mobileDowngrade(prev) == IF prev = "high" THEN "medium" ELSE "low"

\* Variant: the memory rule with its branches exchanged.
memoryDowngradeSwapped(prev) == IF prev = "high" THEN "low" ELSE "medium"

\* setTier(prev => ...) of the memory rule.
memoryDowngrade(prev) == IF prev = "high" THEN "medium" ELSE "low"

\* memory && memory < 4
lowMemory(memory) == memory # 0 /\ memory < 4

\* Variant: the low frame rate is given to every tier but high.
targetFPSOfHighOnly(t) == IF t = "high" THEN 30 ELSE 18

targetFPSOf(t) == IF t = "low" THEN 18 ELSE 30

targetFPS == targetFPSOf(tier)

PERFORMANCE_SETTINGS ==
  [high |-> [targetFPS |-> 30, shadowsEnabled |-> TRUE, textureQuality |-> "high",
             antialias |-> TRUE, prismSimplified |-> FALSE],
   medium |-> [targetFPS |-> 30, shadowsEnabled |-> TRUE, textureQuality |-> "medium",
               antialias |-> FALSE, prismSimplified |-> FALSE],
   low |-> [targetFPS |-> 18, shadowsEnabled |-> FALSE, textureQuality |-> "low",
            antialias |-> FALSE, prismSimplified |-> TRUE]]

\* Variant: the detection effect without its dependency array runs again
\* after every render.
effectAfterRenderNoDeps(position) == "probe"

\* The detection effect has the dependencies []: a later render leaves it
\* where it is.
effectAfterRender(position) == position

Rank(t) == IF t = "low" THEN 0 ELSE IF t = "medium" THEN 1 ELSE 2

InitApp ==
  /\ selectedIndex = 0
  /\ isModelLoading = TRUE
  /\ hasStarted = FALSE
  /\ appDirty = FALSE
  /\ rIndex = 0
  /\ rLoading = TRUE
  /\ rStarted = FALSE
  /\ prism = PrismProps(0)
  /\ load = "pending"
  /\ gltf = NoGltf
  /\ mounted = FALSE
  /\ status = "loading"
  /\ error = "null"
  /\ seenStatus = "loading"
  /\ bearDirty = FALSE
  /\ actions = useAnimations({})
  /\ opacity = 0
  /\ fadeTimer = FALSE
  /\ hasError = FALSE
  /\ lastEvent = [kind |-> "none", selected |-> FALSE]
  /\ lastPlay = "none"
  /\ lastFound = "none"
  /\ repeatPlay = FALSE
  /\ warnings = 0
  /\ errorCalls = 0
  /\ didCatch = 0
  /\ tappedLoading = FALSE
  /\ tappedReady = FALSE
  /\ lastDelta = 0

\* useResponsive mounted in a window of w by h pixels.
InitView(w, h) ==
  /\ innerWidth = w
  /\ innerHeight = h
  /\ width = w
  /\ height = h
  /\ timeouts = << >>
  /\ listening = TRUE
  /\ quiet = DebounceTicks
  /\ prevWidth = w
  /\ burst = 0
  /\ scaleProp = bearScale(deviceTypeOf(w))

\* useDevicePerformance mounted in a browser that reports d.
InitPerf(d) ==
  /\ tier = "medium"
  /\ gpuInfo = << >>
  /\ supportsWebGL = TRUE
  /\ pc = "probe"
  /\ device = d
  /\ applied = {}
  /\ lowered = FALSE
  /\ override = "none"

Init == InitApp /\ InitView(1280, 768) /\ InitPerf(DesktopDevice)

(***************************************************************************)
(* One render-and-commit of BearModel.  cbChanged: the load callbacks are  *)
(* new functions (App rendered); animation: the animation prop; dirtyBase: *)
(* appDirty as it is if no callback sets App state.                        *)
(***************************************************************************)
BearCommit(cbChanged, animation, dirtyBase) ==
  IF boundaryShows # "children" \/ load = "pending" THEN
    \* the boundary shows its fallback, or BearModel is suspended
    /\ bearDirty' = FALSE
    /\ appDirty' = dirtyBase
    /\ UNCHANGED <<mounted, status, error, seenStatus, actions, fadeVars, hasError,
                   isModelLoading, playVars, callVars>>
  ELSE IF load = "failed" THEN
    \* useGLTF throws; getDerivedStateFromError, componentDidCatch
    /\ hasError' = TRUE
    /\ didCatch' = Min(didCatch + 1, MaxCalls)
    /\ bearDirty' = FALSE
    /\ appDirty' = dirtyBase
    /\ UNCHANGED <<mounted, status, error, seenStatus, actions, fadeVars,
                   isModelLoading, playVars, errorCalls>>
  ELSE IF ~mounted THEN
    \* first commit: status is 'loading', only the status effect acts
    /\ mounted' = TRUE
    /\ actions' = useAnimations(gltf.animations)
    /\ status' = StatusEffect(gltf, status)
    /\ error' = ErrorEffect(gltf, error)
    /\ seenStatus' = status
    /\ bearDirty' = (StatusEffect(gltf, status) # status)
    /\ appDirty' = dirtyBase
    /\ UNCHANGED <<fadeVars, hasError, isModelLoading, playVars, callVars>>
  ELSE
    LET loadEffectRuns == cbChanged \/ status # seenStatus
        complete == loadEffectRuns /\ status = "loaded"
        failed == loadEffectRuns /\ status = "error" /\ error # "null"
    IN
    /\ errorCalls' = IF failed THEN Min(errorCalls + 1, MaxCalls) ELSE errorCalls
    /\ isModelLoading' = IF complete \/ failed THEN FALSE ELSE isModelLoading
    /\ appDirty' = (dirtyBase \/ ((complete \/ failed) /\ isModelLoading))
    /\ fadeTimer' = IF status # seenStatus THEN fadeIn(status) ELSE fadeTimer
    /\ IF playsWhen(status)
         THEN PlayCall(animation)
         ELSE UNCHANGED <<actions, playVars>>
    /\ seenStatus' = status
    /\ bearDirty' = FALSE
    /\ UNCHANGED <<mounted, status, error, opacity, hasError, didCatch>>

(***************************************************************************)
(* Steps.                                                                  *)
(***************************************************************************)
\* The asset request settles; Suspense retries the BearModel render.
LoadSettle ==
  /\ load = "pending"
  /\ \/ /\ load' = "ok"
        /\ gltf' \in GltfOutcomes
     \/ /\ load' = "failed"
        /\ gltf' = gltf
  /\ bearDirty' = TRUE
  /\ UNCHANGED <<appVars, propVars, mounted, status, error, seenStatus, actions,
                 fadeVars, hasError, lastEvent, playVars, callVars, tapVars, lastDelta,
                 envVars>>

\* App renders: children get the current state, BearModel renders too.
RenderApp ==
  /\ appDirty
  /\ rIndex' = selectedIndex
  /\ rLoading' = isModelLoading
  /\ rStarted' = hasStarted
  /\ prism' = PrismProps(selectedIndex)
  /\ scaleProp' = bearScale(deviceType)
  /\ BearCommit(TRUE, AnimationAt(selectedIndex).name, FALSE)
  /\ UNCHANGED <<selectedIndex, hasStarted, loadVars, lastEvent, tapVars,
                 lastDelta, envVars>>

\* BearModel renders alone (its own state changed, or Suspense retries).
RenderBear ==
  /\ bearDirty
  /\ BearCommit(FALSE, AnimationAt(rIndex).name, appDirty)
  /\ UNCHANGED <<selectedIndex, hasStarted, propVars, loadVars, lastEvent, tapVars,
                 lastDelta, envVars>>

\* A render of the 3D region throws; the boundary catches it and unmounts its
\* children, whose hook state (status, error, the action set) is discarded.
BoundaryCatch ==
  /\ mounted
  /\ boundaryShows = "children"
  /\ hasError' = TRUE
  /\ didCatch' = Min(didCatch + 1, MaxCalls)
  /\ mounted' = FALSE
  /\ bearDirty' = FALSE
  /\ status' = "loading"
  /\ error' = "null"
  /\ seenStatus' = "loading"
  /\ actions' = useAnimations({})
  /\ opacity' = 0
  /\ fadeTimer' = FALSE
  /\ lastPlay' = "none"
  /\ lastFound' = "none"
  /\ repeatPlay' = FALSE
  /\ UNCHANGED <<appVars, propVars, loadVars, lastEvent, warnings, errorCalls, tapVars,
                 lastDelta, envVars>>

\* useFrame((_, delta) => mixer.update(Math.min(delta, 0.1))) for one frame
\* that comes delta ticks after the previous one.
FrameBy(delta) ==
  /\ mounted
  /\ \A n \in ActiveSet : actions[n].time + cappedDelta(delta) <= MaxTime
  /\ actions' = [n \in DOMAIN actions |->
                   IF actions[n].active
                     THEN [actions[n] EXCEPT !.time = @ + cappedDelta(delta)]
                     ELSE actions[n]]
  /\ UNCHANGED <<appVars, propVars, loadVars, mounted, status, error, seenStatus,
                 bearDirty, fadeVars, hasError, lastEvent, playVars, callVars, tapVars,
                 envVars>>

\* A rendered frame.
Frame == \E delta \in Deltas : FrameBy(delta) /\ UNCHANGED lastDelta

\* A rendered frame whose delta is kept.
TimedFrame == \E delta \in Deltas : FrameBy(delta) /\ lastDelta' = delta

\* The timeout of the fade-in effect fires: setOpacity(1).
FadeTimerFire ==
  /\ mounted
  /\ fadeTimer
  /\ fadeTimer' = FALSE
  /\ opacity' = 1
  /\ bearDirty' = (bearDirty \/ opacity # 1)
  /\ UNCHANGED <<appVars, propVars, loadVars, mounted, status, error, seenStatus,
                 actions, hasError, lastEvent, playVars, callVars, tapVars, lastDelta,
                 envVars>>

\* handleAnimationSelect(index) when called, else nothing.
Select(index, called, kind) ==
  /\ selectedIndex' = index
  /\ appDirty' = (appDirty \/ index # selectedIndex)
  /\ lastEvent' = [kind |-> kind, selected |-> called]
  /\ UNCHANGED <<isModelLoading, hasStarted, propVars, loadVars, bearVars,
                 hasError, playVars, callVars, tapVars, lastDelta, envVars>>

\* The overlay covers the viewport above the carousel while it is rendered.
PointerReachesCarousel == rStarted

\* A pointer activation of the Previous button (a disabled button gets no click).
ClickPrev ==
  /\ PointerReachesCarousel
  /\ IF hasPrev(rIndex)
       THEN Select(handlePrev(rIndex, selectedIndex), hasPrev(rIndex), "prev")
       ELSE Select(selectedIndex, FALSE, "prev")

ClickNext ==
  /\ PointerReachesCarousel
  /\ IF hasNext(rIndex)
       THEN Select(handleNext(rIndex, selectedIndex), hasNext(rIndex), "next")
       ELSE Select(selectedIndex, FALSE, "next")

\* Arrow keys with the focus inside the carousel region.
KeyArrowLeft ==
  Select(handleKeyDown("ArrowLeft", rIndex, selectedIndex), hasPrev(rIndex), "prev")

KeyArrowRight ==
  Select(handleKeyDown("ArrowRight", rIndex, selectedIndex), hasNext(rIndex), "next")

\* onStart() when called, else nothing.
Start(called) ==
  /\ ~rStarted
  /\ hasStarted' = IF called THEN onStart(hasStarted) ELSE hasStarted
  /\ appDirty' = (appDirty \/ (called /\ onStart(hasStarted) # hasStarted))
  /\ tappedLoading' = (tappedLoading \/ rLoading)
  /\ tappedReady' = (tappedReady \/ ~rLoading)
  /\ UNCHANGED <<selectedIndex, isModelLoading, propVars, loadVars, bearVars,
                 hasError, lastEvent, playVars, callVars, lastDelta, envVars>>

\* A click or tap on the overlay.
TapOverlay == Start(handleClick(rLoading))

\* Enter or Space on the overlay.
KeyOverlay == \E key \in {"Enter", " "} : Start(onKeyDown(rLoading, key))

\* A state change of useResponsive or useDevicePerformance: App must render.
HookChange ==
  /\ ~appDirty
  /\ appDirty' = TRUE
  /\ UNCHANGED <<selectedIndex, isModelLoading, hasStarted, propVars, loadVars,
                 bearVars, hasError, lastEvent, playVars, callVars, tapVars,
                 lastDelta, envVars>>

(***************************************************************************)
(* The viewport tracker on its own: the window is resized, time passes,    *)
(* the debounce timeout fires, App renders.                                *)
(***************************************************************************)
playbackVars ==
  <<selectedIndex, isModelLoading, hasStarted, rIndex, rLoading, rStarted, prism,
    loadVars, bearVars, hasError, lastEvent, playVars, callVars, tapVars, lastDelta>>

\* A resize event: the window has a new size and, while the listener is
\* registered, handleResize runs.
Resize ==
  /\ \E w \in Widths, h \in Heights :
       /\ <<w, h>> # <<innerWidth, innerHeight>>
       /\ innerWidth' = w
       /\ innerHeight' = h
  /\ IF listening
       THEN /\ timeouts' = handleResize(timeouts)
            /\ quiet' = 0
            /\ burst' = IF timer = -1 THEN 1 ELSE Min(burst + 1, MaxBurst)
       ELSE UNCHANGED <<timeouts, quiet, burst>>
  /\ UNCHANGED <<width, height, prevWidth, listening, appDirty, scaleProp,
                 playbackVars, perfVars>>

\* 50 ms pass while a timeout is pending.
Tick ==
  /\ timeouts # << >>
  /\ \A i \in 1..Len(timeouts) : timeouts[i] > 0
  /\ timeouts' = [i \in 1..Len(timeouts) |-> timeouts[i] - 1]
  /\ quiet' = Min(quiet + 1, DebounceTicks)
  /\ UNCHANGED <<innerWidth, innerHeight, width, height, prevWidth, listening, burst,
                 appDirty, scaleProp, playbackVars, perfVars>>

\* The oldest timeout fires: setWidth(window.innerWidth);
\* setHeight(window.innerHeight).  React drops the updates of an unmounted hook.
TimerFire ==
  /\ timeouts # << >>
  /\ Head(timeouts) = 0
  /\ timeouts' = Tail(timeouts)
  /\ width' = IF listening THEN innerWidth ELSE width
  /\ height' = IF listening THEN innerHeight ELSE height
  /\ prevWidth' = width
  /\ appDirty' = (appDirty \/ (listening /\ <<innerWidth, innerHeight>> # <<width, height>>))
  /\ UNCHANGED <<innerWidth, innerHeight, listening, quiet, burst, scaleProp,
                 playbackVars, perfVars>>

\* The hook unmounts: clearTimeout(timeoutId); removeEventListener.
Unmount ==
  /\ listening
  /\ listening' = FALSE
  /\ timeouts' = cleanup(timeouts)
  /\ UNCHANGED <<innerWidth, innerHeight, width, height, quiet, prevWidth, burst,
                 appDirty, scaleProp, playbackVars, perfVars>>

InitViewport ==
  /\ InitApp
  /\ \E w \in Widths, h \in Heights : InitView(w, h)
  /\ InitPerf(DesktopDevice)

NextViewport ==
  \/ Resize
  \/ Tick
  \/ TimerFire
  \/ RenderApp

SpecViewport == InitViewport /\ [][NextViewport]_vars

(***************************************************************************)
(* The life of the resize effect: events, time, the timeout, the cleanup.  *)
(***************************************************************************)
NextTracker ==
  \/ Resize
  \/ Tick
  \/ TimerFire
  \/ Unmount

SpecTracker == InitViewport /\ [][NextTracker]_vars

(***************************************************************************)
(* The device capability detector on its own: the detection effect of the  *)
(* first commit, rule by rule, and explicit setTier calls afterwards.      *)
(***************************************************************************)
frozenVars == <<appVars, propVars, loadVars, bearVars, hasError, lastEvent, playVars,
                callVars, tapVars, lastDelta, viewVars>>

\* Variant: the probe without its early return.
ProbeNoReturn ==
  /\ pc = "probe"
  /\ pc' = "renderer"
  /\ IF device.gl
       THEN UNCHANGED <<tier, supportsWebGL>>
       ELSE /\ supportsWebGL' = FALSE
            /\ tier' = "low"
  /\ UNCHANGED <<gpuInfo, device, applied, lowered, override, frozenVars>>

\* canvas.getContext: without a context, setSupportsWebGL(false); setTier('low'); return.
Probe ==
  /\ pc = "probe"
  /\ IF device.gl
       THEN /\ pc' = "renderer"
            /\ UNCHANGED <<tier, supportsWebGL>>
       ELSE /\ pc' = "done"
            /\ supportsWebGL' = FALSE
            /\ tier' = "low"
  /\ UNCHANGED <<gpuInfo, device, applied, lowered, override, frozenVars>>

\* WEBGL_debug_renderer_info: setGpuInfo(renderer) and the classification.
ReadRenderer ==
  /\ pc = "renderer"
  /\ pc' = "mobile"
  /\ IF device.ext
       THEN /\ gpuInfo' = device.renderer
            /\ tier' = classify(device.renderer, tier)
            /\ applied' = applied \cup {"renderer"}
       ELSE UNCHANGED <<gpuInfo, tier, applied>>
  /\ UNCHANGED <<supportsWebGL, device, lowered, override, frozenVars>>

\* /Mobi|Android/i.test(navigator.userAgent)
MobileRule ==
  /\ pc = "mobile"
  /\ pc' = "memory"
  /\ IF device.mobile
       THEN /\ tier' = mobileDowngrade(tier)
            /\ applied' = applied \cup {"mobile"}
            /\ lowered' = (lowered \/ Rank(mobileDowngrade(tier)) < Rank(tier))
       ELSE UNCHANGED <<tier, applied, lowered>>
  /\ UNCHANGED <<gpuInfo, supportsWebGL, device, override, frozenVars>>

\* navigator.deviceMemory
MemoryRule ==
  /\ pc = "memory"
  /\ pc' = "done"
  /\ IF lowMemory(device.memory)
       THEN /\ tier' = memoryDowngrade(tier)
            /\ applied' = applied \cup {"memory"}
            /\ lowered' = (lowered \/ Rank(memoryDowngrade(tier)) < Rank(tier))
       ELSE UNCHANGED <<tier, applied, lowered>>
  /\ UNCHANGED <<gpuInfo, supportsWebGL, device, override, frozenVars>>

\* The setTier the hook returns, called by its user; the hook renders again.
SetTier(t) ==
  /\ pc = "done"
  /\ tier' = t
  /\ override' = t
  /\ pc' = effectAfterRender(pc)
  /\ UNCHANGED <<gpuInfo, supportsWebGL, device, applied, lowered, frozenVars>>

ManualStep == \E t \in Tiers : SetTier(t)

InitDetect ==
  /\ InitApp
  /\ InitView(1280, 768)
  /\ \E d \in Devices : InitPerf(d)

NextDetect ==
  \/ Probe
  \/ ReadRenderer
  \/ MobileRule
  \/ MemoryRule
  \/ ManualStep

SpecDetect == InitDetect /\ [][NextDetect]_vars

(***************************************************************************)
(* The render loop on its own: the model loads, frames are rendered with   *)
(* their deltas kept, the overlay is tapped and the selection moves on.     *)
(***************************************************************************)
(***************************************************************************)
(* Re-renders without any selection: the model loads, frames are rendered, *)
(* the fade-in timeout fires, the overlay is tapped, and the viewport or   *)
(* tier hooks make App render.                                             *)
(***************************************************************************)
NextFade ==
  \/ LoadSettle
  \/ RenderApp
  \/ RenderBear
  \/ BoundaryCatch
  \/ Frame
  \/ FadeTimerFire
  \/ TapOverlay
  \/ HookChange

SpecFade == Init /\ [][NextFade]_vars

NextFrames ==
  \/ LoadSettle
  \/ RenderApp
  \/ RenderBear
  \/ BoundaryCatch
  \/ TimedFrame
  \/ FadeTimerFire
  \/ TapOverlay
  \/ ClickNext

SpecFrames == Init /\ [][NextFrames]_vars

Next ==
  \/ LoadSettle
  \/ RenderApp
  \/ RenderBear
  \/ BoundaryCatch
  \/ Frame
  \/ ClickPrev
  \/ ClickNext
  \/ KeyArrowLeft
  \/ KeyArrowRight
  \/ TapOverlay
  \/ KeyOverlay
  \/ HookChange

Spec == Init /\ [][Next]_vars


(***************************************************************************)
(* Properties.                                                             *)
(***************************************************************************)
LastIndex == Len(ANIMATIONS) - 1

\* A step in which the play effect of BearModel calls playAnimation.
PlayStep == mounted /\ status = "loaded" /\ (RenderApp \/ RenderBear)

\* C1: once the model is loaded, after a playAnimation request whose name has
\* an action, exactly one action is active, the requested one; all others are
\* stopped.
C1_LastRequestIsOnlyActive ==
  (mounted /\ lastPlay \in DOMAIN actions) => ActiveSet = {lastPlay}

\* Requests for catalog entries 0, 1, 2 were made; the last one alone is active.
C1_Witness ==
  /\ mounted
  /\ lastPlay = AnimationAt(2).name
  /\ ActiveSet = {AnimationAt(2).name}
  /\ \A n \in DOMAIN actions \ {lastPlay} : actions[n] = NewAction

\* C2: a playAnimation request that repeats the name of the previous request
\* leaves the set of active actions as it was: exactly the requested action.
C2_RepeatIsIdempotent ==
  [][(PlayStep /\ repeatPlay' /\ lastPlay' \in DOMAIN actions)
       => (ActiveSet' = ActiveSet /\ ActiveSet' = {lastPlay'})]_vars

\* The same existing name was requested twice in a row.
C2_Witness ==
  /\ mounted
  /\ repeatPlay
  /\ lastPlay \in DOMAIN actions
  /\ ActiveSet = {lastPlay}

\* C3: a playAnimation request whose name has no action changes no action
\* (none stopped, reset or started), emits a warning and raises nothing.
C3_UnknownNameIsNoOp ==
  [][(PlayStep /\ lastPlay' \notin DOMAIN actions)
       => /\ actions' = actions
          /\ lastFound' = lastFound
          /\ warnings' = Min(warnings + 1, MaxWarnings)
          /\ mounted' /\ ~hasError']_vars

\* An unknown name was requested while another action was playing and had
\* advanced; that action is still active and was not reset.
C3_Witness ==
  /\ mounted
  /\ status = "loaded"
  /\ lastPlay \notin DOMAIN actions /\ lastPlay # "none"
  /\ lastFound \in DOMAIN actions
  /\ ActiveSet = {lastFound}
  /\ actions[lastFound].time > 0
  /\ warnings > 0

\* C4: once a selection was made and App has rendered, the colour props passed to Prism are those of
\* the colour scheme of the catalog entry at selectedIndex.
C4_PrismFollowsSelection ==
  (~appDirty /\ lastEvent.selected) =>
    /\ prism.hueShift = AnimationAt(selectedIndex).colorScheme.hueShift
    /\ prism.colorFrequency = AnimationAt(selectedIndex).colorScheme.colorFrequency
    /\ "bloom" \in PrismPropNames

\* C5: once the asset has loaded and useBearModel has committed, the status
\* is 'loaded' or 'error', never still 'loading'.
C5_StatusLeavesLoading == mounted => status \in {"loaded", "error"}

\* C6: onLoadError is invoked at most once, and exactly once when BearModel
\* has rendered with status 'error'.
C6_ErrorReportedOnce ==
  /\ errorCalls <= 1
  /\ (status = "error" /\ ~bearDirty) => errorCalls = 1

\* C7 (as claimed): when the overlay was tapped and the model has finished
\* loading, in either order, the overlay is dismissed.
C7_TapRemembered ==
  ((tappedLoading \/ tappedReady) /\ ~isModelLoading /\ ~appDirty /\ ~bearDirty)
    => hasStarted

\* C7 (amended): the overlay is dismissed exactly by a tap (or Enter/Space)
\* made while it is rendered with isLoading false; taps made while it shows
\* the loading indicator are ignored.
C7_DismissedOnlyByReadyTap == hasStarted <=> tappedReady

\* The overlay was tapped while loading, stayed, and went with a later tap.
C7_Witness == tappedLoading /\ tappedReady /\ hasStarted /\ rStarted

\* C8: after a failure caught by the boundary the overlay is not left in its
\* loading state: it is dismissed, or a tap can dismiss it, so that pointer
\* events can reach the carousel.
C8_CarouselOperableAfterFailure == hasError => (hasStarted \/ ~isModelLoading)

\* C9: Previous at index 0 and Next at the last index select nothing and leave
\* selectedIndex unchanged; elsewhere Previous selects index - 1 and Next
\* index + 1; arrow keys act as the buttons do.
C9_BoundedStepping ==
  [][/\ (ClickPrev \/ KeyArrowLeft) =>
          /\ selectedIndex' = IF rIndex = 0 THEN selectedIndex ELSE rIndex - 1
          /\ lastEvent'.selected = (rIndex # 0)
     /\ (ClickNext \/ KeyArrowRight) =>
          /\ selectedIndex' = IF rIndex = LastIndex THEN selectedIndex ELSE rIndex + 1
          /\ lastEvent'.selected = (rIndex # LastIndex)]_vars

\* Next was activated at the last index and selected nothing.
C9_Witness ==
  /\ lastEvent = [kind |-> "next", selected |-> FALSE]
  /\ selectedIndex = LastIndex
  /\ rIndex = LastIndex

\* C10: selectedIndex is always an index of the catalog, also after
\* activations against a selectedIndex prop that is not yet re-rendered.
C10_IndexInRange ==
  /\ selectedIndex \in 0..LastIndex
  /\ rIndex \in 0..LastIndex

\* Next was activated at the last but one index; the carousel has not yet
\* re-rendered.
C10_Witness ==
  /\ selectedIndex = LastIndex
  /\ rIndex = LastIndex - 1
  /\ appDirty
  /\ lastEvent = [kind |-> "next", selected |-> TRUE]


\* C11: the device category is a function of the tracked width alone: below
\* 768 mobile, from 768 to 1023 tablet, from 1024 up desktop, whatever the
\* tracked height is.
C11_DeviceTypeByWidth ==
  /\ width < 768 => deviceType = "mobile"
  /\ (width >= 768 /\ width <= 1023) => deviceType = "tablet"
  /\ width >= 1024 => deviceType = "desktop"
  /\ \A w \in Widths :
       deviceTypeOf(w) = IF w < 768 THEN "mobile"
                         ELSE IF w <= 1023 THEN "tablet" ELSE "desktop"

\* A debounced update has moved the tracked width from 767 to 768 on a tall
\* viewport: the category is tablet.
C11_Witness ==
  /\ prevWidth = 767
  /\ width = 768
  /\ height = 1400
  /\ timer = -1
  /\ deviceType = "tablet"

\* C12: the orientation is landscape exactly when the tracked width exceeds the
\* tracked height and portrait otherwise, a square viewport being portrait;
\* every device category occurs with either orientation.
C12_OrientationByComparison ==
  /\ orientation = "landscape" <=> width > height
  /\ orientation = "portrait" <=> width <= height
  /\ width = height => orientation = "portrait"
  /\ \A t \in {"mobile", "tablet", "desktop"}, o \in {"portrait", "landscape"} :
       \E w \in Widths, h \in Heights :
         deviceTypeOf(w) = t /\ orientationOf(w, h) = o

\* A debounced update has produced a square viewport, 768 by 768: portrait.
C12_Witness ==
  /\ width = 768
  /\ height = 768
  /\ prevWidth # width
  /\ timer = -1
  /\ orientation = "portrait"

\* C13: the tracked size changes only in a step taken after 100 ms without a
\* resize event, and then becomes the window size of that moment with no
\* timeout left pending; a resize event itself changes neither tracked value
\* and, while the listener is registered, restarts the 100 ms.
C13_DebouncedUpdate ==
  [][ /\ (width' # width \/ height' # height) =>
           /\ quiet >= 2
           /\ width' = innerWidth
           /\ height' = innerHeight
           /\ innerWidth' = innerWidth
           /\ innerHeight' = innerHeight
           /\ timer' = -1
      /\ (innerWidth' # innerWidth \/ innerHeight' # innerHeight) =>
           /\ width' = width
           /\ height' = height
           /\ (listening => timer' = 2) ]_vars

\* A burst of at least two resize events has been followed by its one update.
C13_Witness ==
  /\ burst = 2
  /\ timer = -1
  /\ quiet = 2
  /\ prevWidth # width
  /\ width = innerWidth
  /\ height = innerHeight

C15_NoContextIsLow ==
  (pc = "done" /\ ~device.gl /\ override = "none") =>
     /\ tier = "low"
     /\ targetFPS = 18
     /\ ~supportsWebGL
     /\ gpuInfo = << >>
     /\ applied = {}

\* Detection is over on a low-memory phone without a graphics context, whose
\* rules would all have had something to say.
C15_Witness ==
  /\ pc = "done"
  /\ override = "none"
  /\ ~device.gl
  /\ device.ext
  /\ device.mobile
  /\ lowMemory(device.memory)
  /\ tier = "low"
  /\ ~supportsWebGL

\* C16: with a graphics context, the detected tier is the composition, in this
\* order, of the renderer rule (Intel medium; otherwise NVIDIA, AMD, Radeon or
\* Apple high; otherwise, or without the extension, medium), the mobile rule
\* and the memory rule (each: high to medium, anything else to low).
C16_TierIsComposition ==
  LET coarsen(t) == IF t = "high" THEN "medium" ELSE "low"
      has(word) == \E i \in 1..Len(device.renderer) : device.renderer[i] = word
      t1 == IF ~device.ext THEN "medium"
            ELSE IF has("Intel") THEN "medium"
            ELSE IF has("NVIDIA") \/ has("AMD") \/ has("Radeon") \/ has("Apple")
                 THEN "high"
            ELSE "medium"
      t2 == IF device.mobile THEN coarsen(t1) ELSE t1
      t3 == IF device.memory # 0 /\ device.memory < 4 THEN coarsen(t2) ELSE t2
  IN  (pc = "done" /\ device.gl /\ override = "none") => tier = t3

\* Detection is over on a low-memory phone whose renderer string names both
\* Intel and NVIDIA: medium, then low, then low.
C16_Witness ==
  /\ pc = "done"
  /\ override = "none"
  /\ device.gl
  /\ device.ext
  /\ gpuInfo = <<"ANGLE", "Intel", "NVIDIA">>
  /\ device.mobile
  /\ device.memory = 2
  /\ applied = {"renderer", "mobile", "memory"}
  /\ tier = "low"

\* C17: with low < medium < high, once a rule has lowered the tier, no step
\* other than an explicit setTier raises it.
C17_CoarseningIsMonotone ==
  [][ (lowered /\ ~ManualStep) => Rank(tier') <= Rank(tier) ]_vars

\* The mobile rule lowered the tier and the memory rule has run after it.
C17_Witness ==
  /\ lowered
  /\ pc = "done"
  /\ override = "none"
  /\ applied = {"renderer", "mobile", "memory"}
  /\ gpuInfo = <<"Apple", "M1">>
  /\ tier = "low"

\* C18: the target frame rate is determined by the tier alone, 18 for low and
\* 30 for medium and high, in every state, and equals the targetFPS of the
\* tier's performance settings.
C18_TargetFPSByTier ==
  /\ tier = "low" => targetFPS = 18
  /\ tier \in {"medium", "high"} => targetFPS = 30
  /\ targetFPS = PERFORMANCE_SETTINGS[tier].targetFPS

\* After a failed probe set the tier low, setTier('high') was called: 30.
C18_Witness ==
  /\ pc = "done"
  /\ ~supportsWebGL
  /\ override = "high"
  /\ tier = "high"
  /\ targetFPS = 30

\* C19: detection does not run again once it is over; from then on the tier
\* changes only in a setTier(t) step, equals t from that step until the next
\* setTier, and graphics support and the renderer string never change.
C19_OnlySetTierAfterDetection ==
  /\ [](override # "none" => (pc = "done" /\ tier = override))
  /\ [][ pc = "done" =>
           /\ pc' = "done"
           /\ supportsWebGL' = supportsWebGL
           /\ gpuInfo' = gpuInfo
           /\ (tier' # tier => ManualStep) ]_vars

\* setTier('high') has overridden a detected low tier; the detection results
\* are as they were.
C19_Witness ==
  /\ pc = "done"
  /\ override = "high"
  /\ tier = "high"
  /\ lowered
  /\ supportsWebGL
  /\ gpuInfo = <<"Mali", "G78">>

C22_CatalogWellFormed ==
  /\ Len(ANIMATIONS) = 40
  /\ Len(ANIMATION_CONFIG) = 40
  /\ \A i, j \in 1..Len(ANIMATIONS) : ANIMATIONS[i].id = ANIMATIONS[j].id => i = j
  /\ Cardinality(AllNames) = 40
  /\ \A i \in 1..Len(ANIMATIONS) :
       LET a == ANIMATIONS[i]
           c == a.colorScheme
       IN  /\ a.id = a.key
           /\ a.name = a.key
           /\ c.hueShift >= -12 /\ c.hueShift <= 12
           /\ c.colorFrequency >= 7 /\ c.colorFrequency <= 19
           /\ c.bloom >= 11 /\ c.bloom <= 20
           /\ c.saturation >= 11 /\ c.saturation <= 20
  /\ AnimationAt(0).id = "hip-hop-dancing"
  /\ AnimationAt(1).id = "jumping"
  /\ AnimationAt(2).id = "punching"
  /\ AnimationAt(selectedIndex).id \in AllNames

\* The full asset is loaded and the action of entry 0 is playing.
C22_Witness ==
  /\ selectedIndex = 0
  /\ DOMAIN actions = AllNames
  /\ Cardinality(DOMAIN actions) = 40
  /\ ActiveSet = {"hip-hop-dancing"}

\* C23: once the overlay has been dismissed it is never shown again: hasStarted
\* never goes back to false and the overlay, once rendered away, stays away.
C23_DismissedOnce ==
  [][ /\ hasStarted => hasStarted'
      /\ rStarted => (rStarted' /\ hasStarted') ]_vars

\* The overlay is gone while a selection, a failure of the 3D region and later
\* renders have followed.
C23_Witness ==
  /\ hasStarted
  /\ rStarted
  /\ hasError
  /\ lastEvent.selected
  /\ rIndex = 2
  /\ ~appDirty


\* C24 as stated: every Next activation moves the selection from its current
\* value i to min(i + 1, length - 1), every Previous activation to
\* max(i - 1, 0), also when the carousel has not rendered the current value.
C24_NoneDropped ==
  [][ /\ (ClickNext \/ KeyArrowRight) =>
           selectedIndex' = IF selectedIndex + 1 < 39 THEN selectedIndex + 1 ELSE 39
      /\ (ClickPrev \/ KeyArrowLeft) =>
           selectedIndex' = IF selectedIndex - 1 > 0 THEN selectedIndex - 1 ELSE 0 ]_vars

\* C24 amended: every activation is handled at once, on the index the carousel
\* was last rendered with: Next selects that index plus one unless it is the
\* last, Previous that index minus one unless it is 0; when the carousel has
\* rendered the current selection this is min(i + 1, length - 1) and
\* max(i - 1, 0).
C24_PassedThroughOnRenderedIndex ==
  [][ /\ (ClickNext \/ KeyArrowRight) =>
           /\ selectedIndex' = IF rIndex < 39 THEN rIndex + 1 ELSE selectedIndex
           /\ ~appDirty =>
                selectedIndex' = IF selectedIndex + 1 < 39 THEN selectedIndex + 1 ELSE 39
      /\ (ClickPrev \/ KeyArrowLeft) =>
           /\ selectedIndex' = IF rIndex > 0 THEN rIndex - 1 ELSE selectedIndex
           /\ ~appDirty =>
                selectedIndex' = IF selectedIndex - 1 > 0 THEN selectedIndex - 1 ELSE 0 ]_vars

\* A Next activation has selected entry 2 while the carousel still shows entry
\* 1: a further activation will act on 1.
C24_Witness ==
  /\ lastEvent = [kind |-> "next", selected |-> TRUE]
  /\ rIndex = 1
  /\ selectedIndex = 2
  /\ appDirty

\* C25: the first action started after the load is the one of the selection App
\* last rendered, whichever index that is, and whenever the model is loaded
\* and rendering has caught up with the selection, the one active action is
\* that of ANIMATIONS[selectedIndex], provided the asset has it.
C25_SelectionSurvivesLoading ==
  /\ []((/\ mounted
         /\ status = "loaded"
         /\ seenStatus = "loaded"
         /\ ~appDirty
         /\ ~bearDirty
         /\ ANIMATIONS[selectedIndex + 1].name \in DOMAIN actions)
        => ActiveSet = {ANIMATIONS[selectedIndex + 1].name})
  /\ [][ (lastPlay = "none" /\ lastPlay' # "none") =>
           /\ lastPlay' = ANIMATIONS[rIndex' + 1].name
           /\ ~appDirty' => lastPlay' = ANIMATIONS[selectedIndex' + 1].name ]_vars

\* Entry 1 was selected before the load completed; the first request made when
\* the model became loaded started its action, and App has not rendered since.
C25_Witness ==
  /\ selectedIndex = 1
  /\ rIndex = 1
  /\ rLoading
  /\ ~isModelLoading
  /\ status = "loaded"
  /\ lastPlay = "jumping"
  /\ ~repeatPlay
  /\ ActiveSet = {"jumping"}

\* C26: with the model loaded and the selection unchanged, a render of App or
\* of BearModel leaves every action as it was.
C26_RestartOnlyOnChange ==
  [][ ((RenderApp \/ RenderBear) /\ mounted /\ status = "loaded"
       /\ seenStatus = "loaded" /\ ANIMATIONS[rIndex' + 1].name = lastPlay)
      => actions' = actions ]_vars

\* C27: hasStarted implies that the model is no longer loading, and
\* isModelLoading never goes from false back to true.
C27_StartedImpliesLoaded ==
  /\ [](hasStarted => ~isModelLoading)
  /\ [](rStarted => ~rLoading)
  /\ [][~isModelLoading => ~isModelLoading']_vars

\* A tap made while loading was ignored, a later one dismissed the overlay.
C27_Witness ==
  /\ tappedLoading
  /\ tappedReady
  /\ hasStarted
  /\ ~isModelLoading

\* C28: playAnimation is called only while status is 'loaded': while status
\* is 'loading' or 'error' no request has been made and no action has been
\* touched.
C28_PlayOnlyWhenLoaded ==
  /\ [](status # "loaded" =>
          /\ lastPlay = "none"
          /\ warnings = 0 \/ hasError
          /\ \A n \in DOMAIN actions : actions[n] = NewAction)
  /\ [][ (lastPlay' # lastPlay /\ lastPlay' # "none") => status = "loaded" ]_vars

\* Entry 1 was selected and rendered while the load had failed: no request.
C28_Witness ==
  /\ mounted
  /\ status = "error"
  /\ lastEvent.selected
  /\ rIndex = 1
  /\ ~appDirty
  /\ ~bearDirty
  /\ lastPlay = "none"

\* C29: at most one timeout is pending at any time; once the tracker is
\* unmounted none is pending, none fires, and no resize event changes the
\* tracked width or height.
C29_OneTimerAndCleanup ==
  /\ [](Len(timeouts) <= 1)
  /\ [](~listening => timeouts = << >>)
  /\ [][ ~listening =>
           /\ width' = width
           /\ height' = height
           /\ ~listening'
           /\ timeouts' = << >> ]_vars

\* The tracker was unmounted within 100 ms of a resize event and the window
\* has another size than the one tracked.
C29_Witness ==
  /\ ~listening
  /\ quiet < 2
  /\ burst = 2
  /\ timeouts = << >>
  /\ innerWidth # width
  /\ innerHeight # height

\* C30: the boundary's error state is absorbing: after a caught error it shows
\* a fallback (the function's result, else the node, else the default message)
\* in every later state, its children are never mounted again, and
\* componentDidCatch, which calls onError, has run once.
C30_ErrorIsAbsorbing ==
  /\ [](hasError => /\ ~mounted
                    /\ boundaryShows = "default"
                    /\ didCatch = 1)
  /\ [](~hasError => (didCatch = 0 /\ boundaryShows = "children"))
  /\ [](/\ renderBoundary(TRUE, "function") = "fallback(error)"
        /\ renderBoundary(TRUE, "node") = "fallback"
        /\ renderBoundary(TRUE, "none") = "default"
        /\ \A f \in FallbackProps : renderBoundary(FALSE, f) = "children")
  /\ [][hasError => (hasError' /\ didCatch' = didCatch /\ ~mounted')]_vars

\* The boundary caught a failed load; a selection and a render of App followed
\* and the fallback is still shown.
C30_Witness ==
  /\ hasError
  /\ load = "failed"
  /\ didCatch = 1
  /\ lastEvent.selected
  /\ rIndex = 2
  /\ ~appDirty
  /\ ~mounted

====
